---- MODULE Spec2Model ----
(***************************************************************************)
(* A model of pacbuilder.py: the allow-list parser, the exclusion-list     *)
(* fetcher, the deduplicator, the renderer, the validator and main, which  *)
(* runs them in sequence and writes proxy.pac.                             *)
(*                                                                         *)
(* Text is modelled as a sequence of one-character strings, so that        *)
(* strip(), lower(), the regular expressions, sorted() and the substring   *)
(* tests of validate_pac are computed character by character.              *)
(***************************************************************************)
EXTENDS Integers, Sequences, FiniteSets, TLC

VARIABLES
    pc,               \* main's position: the next stage to run, or "done"
    skip_dedup,       \* args.skip_dedup
    skip_validation,  \* args.skip_validation
    parsed,           \* the list parse_allow_list returned to main
    domains,          \* main's local variable domains
    zscaler_domains,  \* main's local variable zscaler_domains
    removed,          \* main's local variable removed
    pac_content,      \* main's local variable pac_content
    valid,            \* what validate_pac returned to main: "none", "true", "false"
    fetch_log,        \* the outcome of every urlopen request issued, in order
    node_log,         \* the outcome of every subprocess.run of node, in order
    output,           \* the text written to output_path (<<>> while unwritten)
    output_written,   \* whether output_path.write_text has run
    exit_status,      \* the process's exit status, -1 while it runs
    error,            \* the line that reports why the process ended abnormally
    call              \* a direct call of one function: its arguments and its result

vars == <<pc, skip_dedup, skip_validation, parsed, domains, zscaler_domains,
          removed, pac_content, valid, fetch_log, node_log, output,
          output_written, exit_status, error, call>>

---------------------------------------------------------------------------
(* Bounds of the model.                                                    *)

\* The most lines an allow-list file holds.
MaxLines == 2
\* The most lines the fetched body holds.
MaxBodyLines == 2

---------------------------------------------------------------------------
(* Characters, and the str methods the program uses.                       *)

\* The printable ASCII characters in code-point order, from 32 (space); the
\* grave accent (96), which a string of this language cannot hold, is written
\* "backtick".
Ascii ==
    <<" ","!","\"","#","$","%","&","'","(",")","*","+",",","-",".","/",
      "0","1","2","3","4","5","6","7","8","9",":",";","<","=",">","?","@",
      "A","B","C","D","E","F","G","H","I","J","K","L","M","N","O","P","Q",
      "R","S","T","U","V","W","X","Y","Z","[","\\","]","^","_","backtick",
      "a","b","c","d","e","f","g","h","i","j","k","l","m","n","o","p","q",
      "r","s","t","u","v","w","x","y","z","{","|","}","~">>

\* The code point of every character of the model: tab 9, newline 10, and
\* the printable characters from 32 on.
CodePoint ==
    [c \in {Ascii[i] : i \in 1..Len(Ascii)} \cup {"\t", "\n"} |->
        IF c = "\t" THEN 9
        ELSE IF c = "\n" THEN 10
        ELSE 31 + (CHOOSE i \in 1..Len(Ascii) : Ascii[i] = c)]

\* ord(c)
Ord(c) == CodePoint[c]

\* [A-Z], [a-z], [0-9] as the regular expressions read them
IsUpper(c) == Ord(c) \in 65..90
IsLowerLetter(c) == Ord(c) \in 97..122
IsDigit(c) == Ord(c) \in 48..57
IsAlpha(c) == IsUpper(c) \/ IsLowerLetter(c)

\* The characters str.strip() removes.
Whitespace == {" ", "\t", "\n"}

RECURSIVE lstrip(_)
lstrip(s) ==
    IF s # <<>> /\ Head(s) \in Whitespace THEN lstrip(Tail(s)) ELSE s

RECURSIVE rstrip(_)
rstrip(s) ==
    IF s # <<>> /\ s[Len(s)] \in Whitespace
    THEN rstrip(SubSeq(s, 1, Len(s) - 1))
    ELSE s

\* str.strip()
strip(s) == rstrip(lstrip(s))

\* str.lower(), one character
LowerChar(c) == IF IsUpper(c) THEN Ascii[Ord(c) + 32 - 31] ELSE c

\* str.lower()
lower(s) == [i \in 1..Len(s) |-> LowerChar(s[i])]

\* str.startswith(prefix)
startswith(s, prefix) ==
    Len(s) >= Len(prefix) /\ SubSeq(s, 1, Len(prefix)) = prefix

\* needle in haystack, for strings
Contains(haystack, needle) ==
    \E i \in 1..(Len(haystack) - Len(needle) + 1) :
        SubSeq(haystack, i, i + Len(needle) - 1) = needle

\* a < b for strings: by code point at the first difference, a proper prefix first
StrLess(a, b) ==
    \E k \in 1..(Len(b)) :
        /\ \A j \in 1..(k - 1) : j <= Len(a) /\ a[j] = b[j]
        /\ \/ k = Len(a) + 1
           \/ k <= Len(a) /\ Ord(a[k]) < Ord(b[k])

\* sorted(S) for a set of strings
RECURSIVE sorted(_)
sorted(S) ==
    IF S = {} THEN <<>>
    ELSE LET m == CHOOSE x \in S : \A y \in S \ {x} : StrLess(x, y)
         IN  <<m>> \o sorted(S \ {m})

\* set(seq)
Range(seq) == {seq[i] : i \in 1..Len(seq)}

---------------------------------------------------------------------------
(* DOMAIN_RE and INVALID_CHARS_RE.                                         *)

\* {1,63}: the most characters of a label before the last
MaxLabelLen == 63
\* {2,}: the fewest characters of the last label
MinTldLen == 2

\* [A-Za-z0-9-]
LabelChar(c) == IsAlpha(c) \/ IsDigit(c) \/ c = "-"

\* The text split at every ".": the labels, empty ones included.
RECURSIVE SplitDots(_)
SplitDots(s) ==
    IF \A i \in 1..Len(s) : s[i] # "."
    THEN <<s>>
    ELSE LET k == CHOOSE i \in 1..Len(s) :
                      s[i] = "." /\ \A j \in 1..(i - 1) : s[j] # "."
         IN  <<SubSeq(s, 1, k - 1)>> \o SplitDots(SubSeq(s, k + 1, Len(s)))

\* The pattern between ^ and $. No character class of it holds ".", so the
\* labels it matches are the text's dot-separated parts:
\*   (?!-)[A-Za-z0-9-]{1,63}(?<!-)   the first label
\*   (\.[A-Za-z0-9-]{1,63})*          the labels between the first and the last
\*   \.[A-Za-z]{2,}                   the last label
DomainPattern(s) ==
    LET L == SplitDots(s)
        n == Len(L)
    IN  /\ n >= 2
        /\ Len(L[1]) \in 1..MaxLabelLen
        /\ \A i \in 1..Len(L[1]) : LabelChar(L[1][i])
        /\ L[1][1] # "-"
        /\ L[1][Len(L[1])] # "-"
        /\ \A k \in 2..(n - 1) :
               /\ Len(L[k]) \in 1..MaxLabelLen
               /\ \A i \in 1..Len(L[k]) : LabelChar(L[k][i])
        /\ Len(L[n]) >= MinTldLen
        /\ \A i \in 1..Len(L[n]) : IsAlpha(L[n][i])

\* DOMAIN_RE.match(s): $ matches at the end and before a final newline.
DOMAIN_RE(s) ==
    \/ DomainPattern(s)
    \/ /\ s # <<>>
       /\ s[Len(s)] = "\n"
       /\ DomainPattern(SubSeq(s, 1, Len(s) - 1))

\* The character class of INVALID_CHARS_RE.
INVALID_CHARS ==
    {"\"", "'", ",", ";", ":", "!", "@", "#", "$", "%", "^", "&", "*", "(",
     ")", "+", "=", "[", "]", "{", "}", "<", ">", "|", "\\", "~", "backtick", " ",
     "\t"}

\* set(INVALID_CHARS_RE.findall(line))
InvalidFound(line) == {line[i] : i \in 1..Len(line)} \cap INVALID_CHARS

\* The description of one invalid character.
DescribeChar(ch) ==
    CASE ch = "\"" -> "double quote (\")"
      [] ch = "'"  -> "single quote (')"
      [] ch = ","  -> "comma (,)"
      [] ch = " "  -> "space"
      [] ch = "\t" -> "tab"
      [] OTHER     -> "'" \o ch \o "'"

\* sorted(found), for a set of characters
RECURSIVE SortedChars(_)
SortedChars(S) ==
    IF S = {} THEN <<>>
    ELSE LET m == CHOOSE x \in S : \A y \in S : Ord(x) <= Ord(y)
         IN  <<m>> \o SortedChars(S \ {m})

\* _check_invalid_chars(line): the descriptions, <<>> standing for None.
check_invalid_chars(line) ==
    LET f == SortedChars(InvalidFound(line))
    IN  [i \in 1..Len(f) |-> DescribeChar(f[i])]

---------------------------------------------------------------------------
(* parse_allow_list.                                                       *)

\* One pass of the loop body on raw_line, line number lineno: the domain
\* appended (keep), or the warning printed, or neither.
AllowLine(raw_line, lineno) ==
    LET line == lower(strip(raw_line))
        bad_chars == check_invalid_chars(line)
    IN  IF line = <<>> \/ startswith(line, <<"#">>)
        THEN [keep |-> FALSE, line |-> line, warnings |-> <<>>]
        ELSE IF bad_chars # <<>>
        THEN [keep |-> FALSE, line |-> line,
              warnings |-> <<[msg |-> "contains invalid characters",
                              lineno |-> lineno, bad_chars |-> bad_chars,
                              text |-> rstrip(raw_line)]>>]
        ELSE IF ~DOMAIN_RE(line)
        THEN [keep |-> FALSE, line |-> line,
              warnings |-> <<[msg |-> "skipping invalid domain",
                              lineno |-> lineno, bad_chars |-> <<>>,
                              text |-> rstrip(raw_line)]>>]
        ELSE [keep |-> TRUE, line |-> line, warnings |-> <<>>]

\* The loop over the file's lines from line number lineno on: the list
\* domains and the warnings, in order.
RECURSIVE AllowLoop(_, _)
AllowLoop(f, lineno) ==
    IF lineno > Len(f)
    THEN [domains |-> <<>>, warnings |-> <<>>]
    ELSE LET one == AllowLine(f[lineno], lineno)
             rest == AllowLoop(f, lineno + 1)
         IN  [domains |-> (IF one.keep THEN <<one.line>> ELSE <<>>) \o rest.domains,
              warnings |-> one.warnings \o rest.warnings]

\* parse_allow_list(path), for a path that is a file or not (is_file) and
\* whose lines are f: sys.exit(1) with an error (exited), or the list returned.
parse_allow_list(is_file, f) ==
    IF ~is_file
    THEN [exited |-> TRUE, error |-> "allow list not found",
          result |-> <<>>, warnings |-> <<>>]
    ELSE LET loop == AllowLoop(f, 1)
             unique == sorted(Range(loop.domains))
         IN  IF unique = <<>>
             THEN [exited |-> TRUE, error |-> "allow list contains no valid domains",
                   result |-> <<>>, warnings |-> loop.warnings]
             ELSE [exited |-> FALSE, error |-> "",
                   result |-> unique, warnings |-> loop.warnings]

---------------------------------------------------------------------------
(* fetch_zscaler_preselected.                                              *)

\* The classes an exception of the request is an instance of: URLError is an
\* OSError, as is a socket timeout; http.client.IncompleteRead (the connection
\* closed before the whole body was read) is an HTTPException and no OSError.
ExceptionClasses(exc) ==
    CASE exc = "URLError"       -> {"URLError", "OSError", "Exception"}
      [] exc = "TimeoutError"   -> {"TimeoutError", "OSError", "Exception"}
      [] exc = "IncompleteRead" -> {"IncompleteRead", "HTTPException", "Exception"}
      [] OTHER                  -> {}

\* except (urllib.error.URLError, OSError)
FetchCaught == {"URLError", "OSError"}

\* What urlopen and resp.read() may do: return the body ("ok") or raise.
FetchOutcomes == {"ok", "URLError", "TimeoutError", "IncompleteRead"}

\* One pass of the loop over text.splitlines(): the domain added, or none.
ZscalerLine(raw) ==
    LET line == lower(strip(raw))
        apex == IF startswith(line, <<"*", ".">>)
                THEN SubSeq(line, 3, Len(line))
                ELSE line
    IN  IF line = <<>> \/ startswith(line, <<"#">>)
        THEN {}
        ELSE IF DOMAIN_RE(apex) THEN {apex} ELSE {}

\* fetch_zscaler_preselected(url), the request ending in outcome and, when it
\* succeeds, the body holding the lines body: the set returned, or the
\* exception that leaves the function (raised).
fetch_zscaler_preselected(outcome, body) ==
    IF outcome = "ok"
    THEN [raised |-> "", warned |-> FALSE,
          result |-> UNION {ZscalerLine(body[i]) : i \in 1..Len(body)}]
    ELSE IF ExceptionClasses(outcome) \cap FetchCaught # {}
    THEN [raised |-> "", warned |-> TRUE, result |-> {}]
    ELSE [raised |-> outcome, warned |-> FALSE, result |-> {}]

---------------------------------------------------------------------------
(* deduplicate.                                                            *)

\* deduplicate(allow_list, zscaler_domains): the loop from index i on.
RECURSIVE DedupLoop(_, _, _)
DedupLoop(allow_list, zs, i) ==
    IF i > Len(allow_list)
    THEN [kept |-> <<>>, removed |-> <<>>]
    ELSE LET rest == DedupLoop(allow_list, zs, i + 1)
             domain == allow_list[i]
         IN  IF domain \in zs
             THEN [kept |-> rest.kept, removed |-> <<domain>> \o rest.removed]
             ELSE [kept |-> <<domain>> \o rest.kept, removed |-> rest.removed]

\* deduplicate with kept built by inserting at the front: the order reversed.
RECURSIVE ReverseSeq(_)
ReverseSeq(q) == IF q = <<>> THEN <<>> ELSE ReverseSeq(Tail(q)) \o <<Head(q)>>

deduplicate_front(allow_list, zs) ==
    LET r == DedupLoop(allow_list, zs, 1)
    IN  [kept |-> ReverseSeq(r.kept), removed |-> r.removed]

deduplicate(allow_list, zs) == DedupLoop(allow_list, zs, 1)

---------------------------------------------------------------------------
(* render_pac. The template proxy.pac.j2 is read from --template-dir; it   *)
(* is modelled as the text before the domain list (head) and the text      *)
(* after it (tail).                                                        *)

\* The default template, before the list: function FindProxyForURL(url, host) {\n  var allowed = [\n
DefaultHead ==
    <<"f","u","n","c","t","i","o","n"," ","F","i","n","d","P","r","o","x",
      "y","F","o","r","U","R","L","(","u","r","l",","," ","h","o","s","t",
      ")"," ","{","\n"," "," ","v","a","r"," ","a","l","l","o","w","e","d",
      " ","="," ","[","\n">>

\* The default template, after the list:     ];\n  if (allowed.indexOf(host) >= 0) return "PROXY 127.0.0.1:1";\n  return "DIRECT";\n}\n
DefaultTail ==
    <<" "," "," "," ","]",";","\n"," "," ","i","f"," ","(","a","l","l","o",
      "w","e","d",".","i","n","d","e","x","O","f","(","h","o","s","t",")",
      " ",">","="," ","0",")"," ","r","e","t","u","r","n"," ","\"","P","R",
      "O","X","Y"," ","1","2","7",".","0",".","0",".","1",":","1","\"",";",
      "\n"," "," ","r","e","t","u","r","n"," ","\"","D","I","R","E","C","T",
      "\"",";","\n","}","\n">>

\* The same with single-quoted return values.
SingleQuotedTail ==
    <<" "," "," "," ","]",";","\n"," "," ","i","f"," ","(","a","l","l","o",
      "w","e","d",".","i","n","d","e","x","O","f","(","h","o","s","t",")",
      " ",">","="," ","0",")"," ","r","e","t","u","r","n"," ","'","P","R",
      "O","X","Y"," ","1","2","7",".","0",".","0",".","1",":","1","'",";",
      "\n"," "," ","r","e","t","u","r","n"," ","'","D","I","R","E","C","T",
      "'",";","\n","}","\n">>

\* A template that never returns a proxy:     ];\n  return "DIRECT";\n}\n
NoProxyTail ==
    <<" "," "," "," ","]",";","\n"," "," ","r","e","t","u","r","n"," ","\"",
      "D","I","R","E","C","T","\"",";","\n","}","\n">>

\* A template that defines no function: var allowed = [\n
BareHead ==
    <<"v","a","r"," ","a","l","l","o","w","e","d"," ","="," ","[","\n">>

\*     ];\n
BareTail ==
    <<" "," "," "," ","]",";","\n">>

\* The templates --template-dir may name.
Templates ==
    {[head |-> DefaultHead, tail |-> DefaultTail],
     [head |-> DefaultHead, tail |-> SingleQuotedTail],
     [head |-> DefaultHead, tail |-> NoProxyTail],
     [head |-> BareHead, tail |-> BareTail]}

\* The list literal's lines from index i on: each domain double-quoted on a
\* line of its own, a comma after every one but the last.
RECURSIVE DomainLines(_, _)
DomainLines(ds, i) ==
    IF i > Len(ds) THEN <<>>
    ELSE <<" ", " ", " ", " ", "\"">> \o ds[i] \o <<"\"">>
         \o (IF i < Len(ds) THEN <<",">> ELSE <<>>) \o <<"\n">>
         \o DomainLines(ds, i + 1)

\* template.render(domains=domains)
RenderTemplate(template, ds) ==
    template.head \o DomainLines(ds, 1) \o template.tail

\* render_pac(domains, template_dir), template_dir holding template
render_pac(ds, template) == RenderTemplate(template, ds)

---------------------------------------------------------------------------
(* validate_pac.                                                           *)

\* "function FindProxyForURL"
FN_MARKER ==
    <<"f","u","n","c","t","i","o","n"," ","F","i","n","d","P","r","o","x",
      "y","F","o","r","U","R","L">>

\* '"DIRECT"'
DIRECT_DQ ==
    <<"\"","D","I","R","E","C","T","\"">>

\* "'DIRECT'"
DIRECT_SQ ==
    <<"'","D","I","R","E","C","T","'">>

\* '"PROXY'
PROXY_DQ ==
    <<"\"","P","R","O","X","Y">>

\* "'PROXY"
PROXY_SQ ==
    <<"'","P","R","O","X","Y">>

\* What one subprocess.run of node may do: exit with status 0, exit with
\* another status, or raise FileNotFoundError or TimeoutExpired.
NodeOutcomes == {"exit 0", "exit nonzero", "FileNotFoundError", "TimeoutExpired"}

\* except FileNotFoundError / except subprocess.TimeoutExpired
NodeCaught == {"FileNotFoundError", "TimeoutExpired"}

\* An exception raised inside the try block by a run of node, runs being the
\* runs made: caught, and validate_pac goes on to return True, or not caught.
NodeExcept(exc, runs) ==
    IF exc \in NodeCaught
    THEN [result |-> TRUE, raised |-> "",
          message |-> IF exc = "FileNotFoundError"
                      THEN "Note: node not found, skipping JavaScript syntax validation"
                      ELSE "Warning: node validation timed out",
          runs |-> runs]
    ELSE [result |-> FALSE, raised |-> exc, message |-> "", runs |-> runs]

\* The try block with the second run of node made after it, outside the try:
\* an exception of the second run leaves validate_pac.
NodeCheck_outside(node1, node2) ==
    IF node1 \notin {"exit 0", "exit nonzero"}
    THEN NodeExcept(node1, <<node1>>)
    ELSE IF node1 = "exit nonzero"
    THEN IF node2 \notin {"exit 0", "exit nonzero"}
         THEN [result |-> FALSE, raised |-> node2, message |-> "",
               runs |-> <<node1, node2>>]
         ELSE IF node2 = "exit nonzero"
         THEN [result |-> FALSE, raised |-> "",
               message |-> "Validation error (node)",
               runs |-> <<node1, node2>>]
         ELSE [result |-> TRUE, raised |-> "",
               message |-> "PAC file passed Node.js syntax validation",
               runs |-> <<node1, node2>>]
    ELSE [result |-> TRUE, raised |-> "",
          message |-> "PAC file passed Node.js syntax validation",
          runs |-> <<node1>>]

\* The try block, the first run of node (node --check -e) ending in node1 and
\* the second (node -e "new Function(...)"), made when the first exits with
\* a status other than 0, in node2.
NodeCheck(node1, node2) ==
    IF node1 \notin {"exit 0", "exit nonzero"}
    THEN NodeExcept(node1, <<node1>>)
    ELSE IF node1 = "exit nonzero"
    THEN IF node2 \notin {"exit 0", "exit nonzero"}
         THEN NodeExcept(node2, <<node1, node2>>)
         ELSE IF node2 = "exit nonzero"
         THEN [result |-> FALSE, raised |-> "",
               message |-> "Validation error (node)",
               runs |-> <<node1, node2>>]
         ELSE [result |-> TRUE, raised |-> "",
               message |-> "PAC file passed Node.js syntax validation",
               runs |-> <<node1, node2>>]
    ELSE [result |-> TRUE, raised |-> "",
          message |-> "PAC file passed Node.js syntax validation",
          runs |-> <<node1>>]

\* validate_pac without the test for a PROXY return.
validate_pac_noproxy(content, node1, node2) ==
    IF ~Contains(content, FN_MARKER)
    THEN [result |-> FALSE, raised |-> "",
          message |-> "Validation error: missing FindProxyForURL function",
          runs |-> <<>>]
    ELSE IF ~Contains(content, DIRECT_DQ) /\ ~Contains(content, DIRECT_SQ)
    THEN [result |-> FALSE, raised |-> "",
          message |-> "Validation error: no DIRECT return found",
          runs |-> <<>>]
    ELSE NodeCheck(node1, node2)

\* validate_pac(pac_content): the boolean returned, the line printed, and the
\* runs of node made.
validate_pac(content, node1, node2) ==
    IF ~Contains(content, FN_MARKER)
    THEN [result |-> FALSE, raised |-> "",
          message |-> "Validation error: missing FindProxyForURL function",
          runs |-> <<>>]
    ELSE IF ~Contains(content, DIRECT_DQ) /\ ~Contains(content, DIRECT_SQ)
    THEN [result |-> FALSE, raised |-> "",
          message |-> "Validation error: no DIRECT return found",
          runs |-> <<>>]
    ELSE IF ~Contains(content, PROXY_DQ) /\ ~Contains(content, PROXY_SQ)
    THEN [result |-> FALSE, raised |-> "",
          message |-> "Validation error: no PROXY return found",
          runs |-> <<>>]
    ELSE NodeCheck(node1, node2)

---------------------------------------------------------------------------
(* The inputs the model draws from.                                        *)

\* A text of n copies of the character c.
RECURSIVE Rep(_, _)
Rep(c, n) == IF n = 0 THEN <<>> ELSE <<c>> \o Rep(c, n - 1)

\* The lines an allow-list file may hold (without the line terminator):
\* domains in either case and with surrounding whitespace, a comment, a blank
\* line, lines with forbidden characters, lines that fail the grammar, hyphens
\* at the ends of a first and of a later label, and labels of 63 and 64
\* characters.
AllowLines ==
    {
     <<"a",".","i","o">>,
     <<"A",".","I","O">>,
     <<"\t","b",".","i","o"," ">>,
     <<"b",".","i","o">>,
     <<"-","a",".","i","o">>,
     <<"a","-",".","i","o">>,
     <<"a",".","-","b",".","i","o">>,
     <<"#","a",".","i","o">>,
     <<>>,
     <<"a",",","b",".","i","o">>,
     <<"a"," ","b","\t",".","i","o">>,
     <<"a","/","b",".","i","o">>,
     <<"a",".","i">>,
     <<"a",".","i","0">>,
     <<"i","o">>,
     <<"h","t","t","p","s",":","/","/","a",".","i","o">>,
     Rep("a", MaxLabelLen) \o <<".", "i", "o">>,
     Rep("a", MaxLabelLen + 1) \o <<".", "i", "o">>,
     <<"a", ".">> \o Rep("b", MaxLabelLen + 1)}

\* The allow-list files: at most MaxLines lines, each ending in a newline.
AllowFiles ==
    UNION {[1..n -> {l \o <<"\n">> : l \in AllowLines}] : n \in 0..MaxLines}

\* The lines the fetched body may hold: domains, wildcard entries, a comment,
\* a blank line and entries that are no domains.
BodyLines ==
    {
     <<"a",".","i","o">>,
     <<"*",".","b",".","i","o">>,
     <<"B",".","I","O"," ">>,
     <<"#","a",".","i","o">>,
     <<>>,
     <<"b","a","d","-","-","-",".","i","o">>,
     <<"a",".","-","b",".","i","o">>,
     <<"*",".","-","a",".","i","o">>,
     <<"z","z",".","i","o">>}

\* The bodies: at most MaxBodyLines lines.
Bodies == UNION {[1..n -> BodyLines] : n \in 0..MaxBodyLines}

---------------------------------------------------------------------------
(* main.                                                                   *)

NoCall == [fn |-> "none"]

Init ==
    /\ pc = "parse"
    /\ skip_dedup \in BOOLEAN
    /\ skip_validation \in BOOLEAN
    /\ parsed = <<>>
    /\ domains = <<>>
    /\ zscaler_domains = {}
    /\ removed = <<>>
    /\ pac_content = <<>>
    /\ valid = "none"
    /\ fetch_log = <<>>
    /\ node_log = <<>>
    /\ output = <<>>
    /\ output_written = FALSE
    /\ exit_status = -1
    /\ error = ""
    /\ call = NoCall

\* sys.exit(1) after printing message, or an exception that leaves main: the
\* interpreter prints a traceback and the status is 1.
Exit1(message) ==
    /\ pc' = "done"
    /\ exit_status' = 1
    /\ error' = message

\* 1. domains = parse_allow_list(allow_list_path)
MainParse ==
    /\ pc = "parse"
    /\ \E is_file \in BOOLEAN, f \in AllowFiles :
         LET r == parse_allow_list(is_file, f)
         IN  IF r.exited
             THEN /\ Exit1(r.error)
                  /\ UNCHANGED <<parsed, domains>>
             ELSE /\ parsed' = r.result
                  /\ domains' = r.result
                  /\ pc' = "fetch"
                  /\ UNCHANGED <<exit_status, error>>
    /\ UNCHANGED <<skip_dedup, skip_validation, zscaler_domains, removed,
                   pac_content, valid, fetch_log, node_log, output,
                   output_written, call>>

\* 2. if not args.skip_dedup: with --skip-dedup the stage is passed over
MainSkipDedup ==
    /\ pc = "fetch"
    /\ skip_dedup
    /\ pc' = "render"
    /\ UNCHANGED <<skip_dedup, skip_validation, parsed, domains,
                   zscaler_domains, removed, pac_content, valid, fetch_log,
                   node_log, output, output_written, exit_status, error, call>>

\* MainFetch with a second request issued when the first one fails.
MainFetch_retry ==
    /\ pc = "fetch"
    /\ ~skip_dedup
    /\ \E outcome \in FetchOutcomes, again \in FetchOutcomes \ {"ok"} :
         LET r == fetch_zscaler_preselected(outcome, <<>>)
         IN  /\ fetch_log' = IF outcome = "ok"
                             THEN Append(fetch_log, outcome)
                             ELSE fetch_log \o <<outcome, again>>
             /\ IF r.raised # ""
                THEN /\ Exit1(r.raised)
                     /\ UNCHANGED zscaler_domains
                ELSE /\ zscaler_domains' = r.result
                     /\ pc' = "dedup"
                     /\ UNCHANGED <<exit_status, error>>
    /\ UNCHANGED <<skip_dedup, skip_validation, parsed, domains, removed,
                   pac_content, valid, node_log, output, output_written, call>>

\* 2. zscaler_domains = fetch_zscaler_preselected()
MainFetch ==
    /\ pc = "fetch"
    /\ ~skip_dedup
    /\ \E outcome \in FetchOutcomes :
       \E body \in (IF outcome = "ok" THEN Bodies ELSE {<<>>}) :
         LET r == fetch_zscaler_preselected(outcome, body)
         IN  /\ fetch_log' = Append(fetch_log, outcome)
             /\ IF r.raised # ""
                THEN /\ Exit1(r.raised)
                     /\ UNCHANGED zscaler_domains
                ELSE /\ zscaler_domains' = r.result
                     /\ pc' = "dedup"
                     /\ UNCHANGED <<exit_status, error>>
    /\ UNCHANGED <<skip_dedup, skip_validation, parsed, domains, removed,
                   pac_content, valid, node_log, output, output_written, call>>

\* MainDedup without the exit when no domain is left.
MainDedup_noexit ==
    /\ pc = "dedup"
    /\ IF zscaler_domains # {}
       THEN LET r == deduplicate(domains, zscaler_domains)
            IN  /\ domains' = r.kept
                /\ removed' = r.removed
       ELSE UNCHANGED <<domains, removed>>
    /\ pc' = "render"
    /\ UNCHANGED <<skip_dedup, skip_validation, parsed, zscaler_domains,
                   pac_content, valid, fetch_log, node_log, output,
                   output_written, exit_status, error, call>>

\* 2. if zscaler_domains: domains, removed = deduplicate(...), and the exit
\* when no domain is left
MainDedup ==
    /\ pc = "dedup"
    /\ IF zscaler_domains # {}
       THEN LET r == deduplicate(domains, zscaler_domains)
            IN  /\ domains' = r.kept
                /\ removed' = r.removed
                /\ IF r.kept = <<>>
                   THEN Exit1("all domains were removed by deduplication")
                   ELSE /\ pc' = "render"
                        /\ UNCHANGED <<exit_status, error>>
       ELSE /\ pc' = "render"
            /\ UNCHANGED <<domains, removed, exit_status, error>>
    /\ UNCHANGED <<skip_dedup, skip_validation, parsed, zscaler_domains,
                   pac_content, valid, fetch_log, node_log, output,
                   output_written, call>>

\* 3. pac_content = render_pac(domains, template_dir)
MainRender ==
    /\ pc = "render"
    /\ \E template \in Templates :
         pac_content' = render_pac(domains, template)
    /\ pc' = "validate"
    /\ UNCHANGED <<skip_dedup, skip_validation, parsed, domains,
                   zscaler_domains, removed, valid, fetch_log, node_log,
                   output, output_written, exit_status, error, call>>

\* 4. if not args.skip_validation: with --skip-validation the stage is passed over
MainSkipValidation ==
    /\ pc = "validate"
    /\ skip_validation
    /\ pc' = "write"
    /\ UNCHANGED <<skip_dedup, skip_validation, parsed, domains,
                   zscaler_domains, removed, pac_content, valid, fetch_log,
                   node_log, output, output_written, exit_status, error, call>>

\* MainValidate with validate_pac's result ignored.
MainValidate_ignored ==
    /\ pc = "validate"
    /\ ~skip_validation
    /\ \E node1 \in NodeOutcomes, node2 \in NodeOutcomes :
         LET r == validate_pac(pac_content, node1, node2)
         IN  /\ node_log' = node_log \o r.runs
             /\ valid' = IF r.result THEN "true" ELSE "false"
             /\ pc' = "write"
    /\ UNCHANGED <<skip_dedup, skip_validation, parsed, domains,
                   zscaler_domains, removed, pac_content, fetch_log, output,
                   output_written, exit_status, error, call>>

\* 4. if not validate_pac(pac_content): sys.exit(1)
MainValidate ==
    /\ pc = "validate"
    /\ ~skip_validation
    /\ \E node1 \in NodeOutcomes, node2 \in NodeOutcomes :
         LET r == validate_pac(pac_content, node1, node2)
         IN  /\ node_log' = node_log \o r.runs
             /\ IF r.raised # ""
                THEN /\ Exit1(r.raised)
                     /\ UNCHANGED valid
                ELSE IF r.result
                THEN /\ valid' = "true"
                     /\ pc' = "write"
                     /\ UNCHANGED <<exit_status, error>>
                ELSE /\ valid' = "false"
                     /\ Exit1("PAC file validation failed")
    /\ UNCHANGED <<skip_dedup, skip_validation, parsed, domains,
                   zscaler_domains, removed, pac_content, fetch_log, output,
                   output_written, call>>

\* 5. output_path.write_text(pac_content), and main returns: status 0
MainWrite ==
    /\ pc = "write"
    /\ output' = pac_content
    /\ output_written' = TRUE
    /\ pc' = "done"
    /\ exit_status' = 0
    /\ UNCHANGED <<skip_dedup, skip_validation, parsed, domains,
                   zscaler_domains, removed, pac_content, valid, fetch_log,
                   node_log, error, call>>

Next ==
    \/ MainParse
    \/ MainSkipDedup
    \/ MainFetch
    \/ MainDedup
    \/ MainRender
    \/ MainSkipValidation
    \/ MainValidate
    \/ MainWrite

Spec == Init /\ [][Next]_vars

---------------------------------------------------------------------------
(* Direct calls of the functions, as the tests make them: one call, its    *)
(* arguments drawn from the sets below, recorded with its result in call.  *)

\* The domains deduplicate is called with.
DedupUniverse ==
    {<<"a", ".", "i", "o">>, <<"b", ".", "i", "o">>, <<"c", ".", "i", "o">>,
     <<"d", ".", "i", "o">>}

\* The lists deduplicate is called with: any order, repetitions included.
DedupLists == UNION {[1..n -> DedupUniverse] : n \in 0..(MaxLines + 1)}

\* function FindProxyForURL() {
FragFunction ==
    <<"f","u","n","c","t","i","o","n"," ","F","i","n","d","P","r","o","x","y","F","o","r","U","R","L","(",")"," ","{">>

\*  return "DIRECT";
FragDirectDq ==
    <<" ","r","e","t","u","r","n"," ","\"","D","I","R","E","C","T","\"",";">>

\*  return 'DIRECT';
FragDirectSq ==
    <<" ","r","e","t","u","r","n"," ","'","D","I","R","E","C","T","'",";">>

\*  return "PROXY 1";
FragProxyDq ==
    <<" ","r","e","t","u","r","n"," ","\"","P","R","O","X","Y"," ","1","\"",";">>

\*  return 'PROXY 1';
FragProxySq ==
    <<" ","r","e","t","u","r","n"," ","'","P","R","O","X","Y"," ","1","'",";">>

\*  return DIRECT; // PROXY
FragBare ==
    <<" ","r","e","t","u","r","n"," ","D","I","R","E","C","T",";"," ","/","/"," ","P","R","O","X","Y">>

\* The text a set of fragments makes, in this order.
DocOf(S) ==
    (IF "function" \in S THEN FragFunction ELSE <<>>)
    \o (IF "bare" \in S THEN FragBare ELSE <<>>)
    \o (IF "direct dq" \in S THEN FragDirectDq ELSE <<>>)
    \o (IF "direct sq" \in S THEN FragDirectSq ELSE <<>>)
    \o (IF "proxy dq" \in S THEN FragProxyDq ELSE <<>>)
    \o (IF "proxy sq" \in S THEN FragProxySq ELSE <<>>)

\* The documents validate_pac is called with.
Documents ==
    {DocOf(S) : S \in SUBSET {"function", "bare", "direct dq", "direct sq",
                              "proxy dq", "proxy sq"}}
    \cup {render_pac(ds, t) : ds \in {<<>>, <<<<"a", ".", "i", "o">>>>},
                              t \in Templates}

TestInit ==
    /\ pc = "test"
    /\ skip_dedup = FALSE
    /\ skip_validation = FALSE
    /\ parsed = <<>>
    /\ domains = <<>>
    /\ zscaler_domains = {}
    /\ removed = <<>>
    /\ pac_content = <<>>
    /\ valid = "none"
    /\ fetch_log = <<>>
    /\ node_log = <<>>
    /\ output = <<>>
    /\ output_written = FALSE
    /\ exit_status = -1
    /\ error = ""
    /\ call = NoCall

main_vars == <<pc, skip_dedup, skip_validation, parsed, domains,
               zscaler_domains, removed, pac_content, valid, fetch_log,
               node_log, output, output_written, exit_status, error>>

TestParse ==
    /\ call.fn = "none"
    /\ \E is_file \in BOOLEAN, f \in AllowFiles :
         call' = [fn |-> "parse_allow_list", is_file |-> is_file, f |-> f,
                  ret |-> parse_allow_list(is_file, f)]
    /\ UNCHANGED main_vars

TestFetch ==
    /\ call.fn = "none"
    /\ \E outcome \in FetchOutcomes :
       \E body \in (IF outcome = "ok" THEN Bodies ELSE {<<>>}) :
         call' = [fn |-> "fetch_zscaler_preselected", outcome |-> outcome,
                  body |-> body,
                  ret |-> fetch_zscaler_preselected(outcome, body)]
    /\ UNCHANGED main_vars

TestDeduplicate ==
    /\ call.fn = "none"
    /\ \E allow_list \in DedupLists, zs \in SUBSET DedupUniverse :
         call' = [fn |-> "deduplicate", allow_list |-> allow_list, zs |-> zs,
                  ret |-> deduplicate(allow_list, zs)]
    /\ UNCHANGED main_vars

TestValidate ==
    /\ call.fn = "none"
    /\ \E content \in Documents, node1 \in NodeOutcomes, node2 \in NodeOutcomes :
         call' = [fn |-> "validate_pac", content |-> content,
                  node1 |-> node1, node2 |-> node2,
                  ret |-> validate_pac(content, node1, node2)]
    /\ UNCHANGED main_vars

TestNext ==
    \/ TestParse
    \/ TestFetch
    \/ TestDeduplicate
    \/ TestValidate

TestSpec == TestInit /\ [][TestNext]_vars

---------------------------------------------------------------------------
(* The properties.                                                         *)

\* The domain grammar as the specification states it: at least two
\* dot-separated labels, every label of 1 to 63 characters from
\* [A-Za-z0-9-], no label beginning or ending with a hyphen, the last label
\* alphabetic and of at least 2 characters.
StrictGrammar(s) ==
    LET L == SplitDots(s)
        n == Len(L)
    IN  /\ n >= 2
        /\ \A k \in 1..n :
               /\ Len(L[k]) \in 1..MaxLabelLen
               /\ \A i \in 1..Len(L[k]) : LabelChar(L[k][i])
               /\ L[k][1] # "-"
               /\ L[k][Len(L[k])] # "-"
        /\ Len(L[n]) >= MinTldLen
        /\ \A i \in 1..Len(L[n]) : IsAlpha(L[n][i])

\* q is strictly ascending in the order of strings.
Ascending(q) == \A i \in 1..(Len(q) - 1) : StrLess(q[i], q[i + 1])

\* C1: the output file is written only at the end of a run in which every
\* required stage succeeded: the parser returned a list, deduplication (unless
\* skipped) issued its fetch and left a domain, validation (unless skipped)
\* returned true; what is written is the whole rendered document; and a run
\* that ends with a non-zero status has written nothing.
C1_WrittenOnlyAfterStages ==
    /\ output_written =>
         /\ pc = "done"
         /\ exit_status = 0
         /\ parsed # <<>>
         /\ ~skip_dedup => (Len(fetch_log) = 1 /\ domains # <<>>)
         /\ ~skip_validation => valid = "true"
         /\ output = pac_content
    /\ ~output_written => output = <<>>
    /\ (pc = "done" /\ exit_status # 0) => ~output_written

C1_Witness ==
    /\ output_written
    /\ ~skip_dedup
    /\ ~skip_validation
    /\ removed # <<>>
    /\ Len(node_log) = 2

\* A fatal condition of the run: the parser returned no list (the file is
\* missing or holds no valid domain), deduplication removed every domain, or
\* validation failed.
FatalCondition == parsed = <<>> \/ domains = <<>> \/ valid = "false"

\* C2: a finished run has a non-zero status exactly when a fatal condition
\* occurred, and otherwise status zero with the output written; the run in
\* which deduplication removes every domain reports its own error and writes
\* no document; no document with an empty list is written.
C2_ExitStatus ==
    pc = "done" =>
        /\ IF FatalCondition
           THEN exit_status = 1
           ELSE exit_status = 0 /\ output_written
        /\ (parsed # <<>> /\ domains = <<>>) =>
               /\ error = "all domains were removed by deduplication"
               /\ ~output_written
        /\ output_written => domains # <<>>

\* C3: deduplicate puts every entry of the list in exactly one of kept and
\* removed, in removed exactly when it is in the exclusion set; kept and
\* removed are disjoint and together hold the list's domains; both keep the
\* list's order; a domain of the exclusion set that is not in the list is in
\* neither.
C3_DeduplicatePartitions ==
    call.fn = "deduplicate" =>
        LET kept == call.ret.kept
            rem == call.ret.removed
            InZs(d) == d \in call.zs
            NotInZs(d) == d \notin call.zs
        IN  /\ kept = SelectSeq(call.allow_list, NotInZs)
            /\ rem = SelectSeq(call.allow_list, InZs)
            /\ Len(kept) + Len(rem) = Len(call.allow_list)
            /\ Range(kept) \cap Range(rem) = {}
            /\ Range(kept) \cup Range(rem) = Range(call.allow_list)
            /\ \A d \in Range(call.allow_list) :
                   (d \in Range(rem)) <=> (d \in call.zs)
            /\ \A d \in call.zs \ Range(call.allow_list) :
                   d \notin Range(kept) \cup Range(rem)

\* The test's case: ["a.io", "b.io", "c.io"] against {"b.io", "d.io"}.
C3_Witness ==
    /\ call.fn = "deduplicate"
    /\ call.allow_list = <<<<"a", ".", "i", "o">>, <<"b", ".", "i", "o">>,
                           <<"c", ".", "i", "o">>>>
    /\ call.zs = {<<"b", ".", "i", "o">>, <<"d", ".", "i", "o">>}
    /\ call.ret.kept = <<<<"a", ".", "i", "o">>, <<"c", ".", "i", "o">>>>
    /\ call.ret.removed = <<<<"b", ".", "i", "o">>>>

\* The lines of f, trimmed and lowercased, that are not blank and no comment.
ContentLines(f) ==
    {line \in {lower(strip(f[i])) : i \in 1..Len(f)} :
        line # <<>> /\ ~startswith(line, <<"#">>)}

\* ret is what parse_allow_list does on a file of which E are the lines to
\* return: it returns exactly E, each once, in ascending order, and exits
\* when there is none.
ParseReturnsExactly(ret, E) ==
    IF ret.exited
    THEN E = {}
    ELSE /\ Range(ret.result) = E
         /\ Len(ret.result) = Cardinality(E)
         /\ Ascending(ret.result)

\* C4: the parser returns exactly the trimmed, lowercased lines that are not
\* blank, are no comment and match the domain grammar, each once, ascending;
\* every other line contributes nothing.
C4_ParseReturnsGrammarLines ==
    (call.fn = "parse_allow_list" /\ call.is_file) =>
        ParseReturnsExactly(call.ret,
            {line \in ContentLines(call.f) : StrictGrammar(line)})

\* The same with "matches DOMAIN_RE" for "matches the domain grammar".
ParseReturnsRegexLines ==
    (call.fn = "parse_allow_list" /\ call.is_file) =>
        ParseReturnsExactly(call.ret,
            {line \in ContentLines(call.f) : DOMAIN_RE(line)})

\* C5: every domain the parser accepted and every domain of the fetched
\* exclusion set satisfies the domain grammar.
C5_AcceptedDomainsMatchGrammar ==
    \A d \in Range(parsed) \cup Range(domains) \cup zscaler_domains :
        StrictGrammar(d)

C7_StructuralChecksReject ==
    call.fn = "validate_pac" =>
        LET noFn == ~Contains(call.content, FN_MARKER)
            noDirect == /\ ~Contains(call.content, DIRECT_DQ)
                        /\ ~Contains(call.content, DIRECT_SQ)
            noProxy == /\ ~Contains(call.content, PROXY_DQ)
                       /\ ~Contains(call.content, PROXY_SQ)
        IN  (noFn \/ noDirect \/ noProxy) =>
                /\ call.ret.result = FALSE
                /\ call.ret.raised = ""
                /\ call.ret.runs = <<>>
                /\ call.ret.message =
                       IF noFn
                       THEN "Validation error: missing FindProxyForURL function"
                       ELSE IF noDirect
                       THEN "Validation error: no DIRECT return found"
                       ELSE "Validation error: no PROXY return found"

\* A document with the function and a DIRECT return and no PROXY return,
\* rejected where node would have accepted it.
C7_Witness ==
    /\ call.fn = "validate_pac"
    /\ Contains(call.content, FN_MARKER)
    /\ Contains(call.content, DIRECT_SQ)
    /\ ~Contains(call.content, PROXY_DQ)
    /\ ~Contains(call.content, PROXY_SQ)
    /\ call.node1 = "exit 0"
    /\ call.ret.result = FALSE

\* The document passes the three structural checks.
StructurallyValid(content) ==
    /\ Contains(content, FN_MARKER)
    /\ Contains(content, DIRECT_DQ) \/ Contains(content, DIRECT_SQ)
    /\ Contains(content, PROXY_DQ) \/ Contains(content, PROXY_SQ)

\* C8: for a document that passes the structural checks, validate_pac
\* returns true when node is not installed, true when a run of node times out
\* (the first or the second), false when node reports a parse error (both
\* runs exit non-zero) and true when node parses the document; it raises in
\* none of these cases.
C8_NodeOutcomes ==
    (call.fn = "validate_pac" /\ StructurallyValid(call.content)) =>
        LET n1 == call.node1
            n2 == call.node2
            ret == call.ret
        IN  /\ ret.raised = ""
            /\ n1 = "FileNotFoundError" => (ret.result /\ ret.runs = <<n1>>)
            /\ n1 = "TimeoutExpired" => ret.result
            /\ n1 = "exit 0" => ret.result
            /\ (n1 = "exit nonzero" /\ n2 = "TimeoutExpired") => ret.result
            /\ (n1 = "exit nonzero" /\ n2 = "FileNotFoundError") => ret.result
            /\ (n1 = "exit nonzero" /\ n2 = "exit 0") => ret.result
            /\ (n1 = "exit nonzero" /\ n2 = "exit nonzero") => ~ret.result

C8_Witness ==
    /\ call.fn = "validate_pac"
    /\ StructurallyValid(call.content)
    /\ call.node1 = "exit nonzero"
    /\ call.node2 = "TimeoutExpired"
    /\ call.ret.result
    /\ Len(call.ret.runs) = 2

\* The fetch has been issued: deduplication is not skipped, the parser
\* returned and main is past the fetch.
FetchDue == ~skip_dedup /\ parsed # <<>> /\ pc # "fetch"

\* C9 as stated: the request is issued exactly once when deduplication is not
\* skipped and never otherwise, and node is run exactly once when validation
\* ran and the structural checks passed, never a second time.
C9_EachCallOnce ==
    /\ Len(fetch_log) = IF FetchDue THEN 1 ELSE 0
    /\ Len(node_log) =
           IF valid # "none" /\ StructurallyValid(pac_content) THEN 1 ELSE 0

\* C9 as amended: the request is issued exactly once when deduplication is
\* not skipped and never otherwise; node is run at most twice: once when
\* validation ran and the structural checks passed, and a second time exactly
\* when the first run exited with a non-zero status.
C9_FetchOnceNodeAtMostTwice ==
    /\ Len(fetch_log) = IF FetchDue THEN 1 ELSE 0
    /\ Len(node_log) =
           IF valid # "none" /\ StructurallyValid(pac_content)
           THEN IF node_log[1] = "exit nonzero" THEN 2 ELSE 1
           ELSE 0
    /\ skip_validation => node_log = <<>>

C9_Witness ==
    /\ pc = "done"
    /\ Len(fetch_log) = 1
    /\ fetch_log[1] = "URLError"
    /\ Len(node_log) = 2

\* main has reached the render stage.
ReachedRender == pc = "render" \/ pac_content # <<>>

\* C10: the list handed to render_pac is not empty, strictly ascending, a
\* part of the parser's list, and holds no domain of the fetched exclusion
\* set; with --skip-dedup no request is issued and it is the parser's list.
C10_RenderedListSound ==
    ReachedRender =>
        /\ domains # <<>>
        /\ Ascending(domains)
        /\ Range(domains) \subseteq Range(parsed)
        /\ Range(domains) \cap zscaler_domains = {}
        /\ skip_dedup => (fetch_log = <<>> /\ domains = parsed)
        /\ zscaler_domains = {} => domains = parsed

C10_Witness ==
    /\ pc = "render"
    /\ ~skip_dedup
    /\ removed # <<>>
    /\ domains # <<>>
    /\ zscaler_domains \ Range(parsed) # {}

====
